---- MODULE Spec2Model ----
(***************************************************************************)
(* The WAL record decoder of server/storage/wal (decoder.go): frame codec, *)
(* checksum chain, segment stream, torn-write detector and the decode      *)
(* critical section, modelled at the level of the bytes of the segment     *)
(* files.                                                                  *)
(***************************************************************************)
EXTENDS Integers, Sequences, FiniteSets, TLC

(***************************************************************************)
(* Bounds of the model.                                                    *)
(***************************************************************************)
MaxSegs == 2
MaxRecs == 2
MaxCalls == 4
NumProcs == 2
NumClients == 2
MaxKeepers == 2
MaxTime == 2
MaxIndex == 1
TokenTTL == 1
NumWriters == 2
MaxChanges == 2
MaxRev == 1

(***************************************************************************)
(* Program constants.                                                      *)
(***************************************************************************)
minSectorSize == 512
frameSizeBytes == 8
crcType == 4
entryType == 2

(***************************************************************************)
(* Bytes.  A 64-bit length field is kept as the eight bytes it occupies on *)
(* disk, least significant first; its low 56 bits are kept as seven bytes. *)
(***************************************************************************)
Byte == 0..255

Zeros(n) == [i \in 1..n |-> 0]

Fill(n, b) == [i \in 1..n |-> b]

Min(a, b) == IF a < b THEN a ELSE b

\* the value of a 56-bit quantity whose upper four bytes are zero
Lo24(u) == u[1] + 256 * u[2] + 65536 * u[3]

HighZero(u) == u[4] = 0 /\ u[5] = 0 /\ u[6] = 0 /\ u[7] = 0

\* u > n for a 56-bit quantity u and an integer n below 2^24
U56Greater(u, n) == (~HighZero(u)) \/ Lo24(u) > n

\* a 56-bit quantity as an integer; 2^24 stands for every value from 2^24 on
U56Clamp(u) == IF HighZero(u) THEN Lo24(u) ELSE 16777216

ToU56(n) == <<n % 256, (n \div 256) % 256, (n \div 65536) % 256, 0, 0, 0, 0>>

(***************************************************************************)
(* Frame codec.                                                            *)
(***************************************************************************)
\* a decoder that keeps only two bits of the padding field
decodeFrameSizeMask3(lenField) ==
  [recBytes |-> SubSeq(lenField, 1, 7),
   padBytes |-> IF lenField[8] >= 128 THEN lenField[8] % 4 ELSE 0]

decodeFrameSize(lenField) ==
  [recBytes |-> SubSeq(lenField, 1, 7),
   padBytes |-> IF lenField[8] >= 128 THEN lenField[8] % 8 ELSE 0]

\* the writer's length field for a record of recBytes bytes and padBytes of padding
encodeFrameSize(recBytes, padBytes) ==
  recBytes \o <<IF padBytes # 0 THEN 128 + padBytes ELSE 0>>

\* the writer pads every record to a multiple of eight bytes
padFor(n) == (8 - (n % 8)) % 8

(***************************************************************************)
(* Checksum chain (pkg/crc): a digest whose Write continues from the       *)
(* current value, so that writing a and then b gives the value of writing  *)
(* a \o b; the value is kept to eight bits.                                *)
(***************************************************************************)
RECURSIVE crcSum(_, _, _)
crcSum(d, lo, hi) ==
  IF lo > hi THEN 0
  ELSE IF lo = hi THEN d[lo] + 1
  ELSE LET mid == (lo + hi) \div 2
       IN crcSum(d, lo, mid) + crcSum(d, mid + 1, hi)

crcWrite(c, d) == (c + crcSum(d, 1, Len(d))) % 256

(***************************************************************************)
(* Record schema (walpb.Record): type, crc, data.                          *)
(***************************************************************************)
RecTypes == 1..5

Marshal(r) == <<r.type, r.crc>> \o r.data

UnmarshalOK(b) == Len(b) >= 2 /\ b[1] \in RecTypes

Unmarshal(b) == [type |-> b[1], crc |-> b[2], data |-> SubSeq(b, 3, Len(b))]

\* rec.Validate(crc)
Validate(r, c) == r.crc = c

(***************************************************************************)
(* The writer (encoder.go): one frame per record, eight-byte aligned.      *)
(***************************************************************************)
Frame(r) ==
  LET p == Marshal(r)
      pad == padFor(Len(p))
  IN encodeFrameSize(ToU56(Len(p)), pad) \o p \o Zeros(pad)

EntData == <<1, 2, 3, 4, 5, 6, 7, 8, 9, 10, 11, 12>>

\* fills the first segment up to eight bytes before the first sector boundary
BigData == Fill(minSectorSize - 3 * frameSizeBytes - 2, 7)

\* data of zeros that covers the whole second sector of a file it begins
ZeroData == Zeros(2 * minSectorSize - 2)

ItemData(it) ==
  CASE it = "big" -> BigData
    [] it = "ent" -> EntData
    [] it = "zeros" -> ZeroData
    [] OTHER -> <<>>

\* the record the writer emits for an item when its running checksum is c
ItemRec(it, c) ==
  IF it = "crc" THEN [type |-> crcType, crc |-> c, data |-> <<>>]
  ELSE [type |-> entryType, crc |-> crcWrite(c, ItemData(it)), data |-> ItemData(it)]

RECURSIVE SegRecs(_, _)
SegRecs(items, c) ==
  IF items = <<>> THEN <<>>
  ELSE LET r == ItemRec(items[1], c) IN <<r>> \o SegRecs(Tail(items), r.crc)

RECURSIVE LogRecs(_, _)
LogRecs(layout, c) ==
  IF layout = <<>> THEN <<>>
  ELSE LET rs == SegRecs(layout[1], c)
           c2 == IF rs = <<>> THEN c ELSE rs[Len(rs)].crc
       IN <<rs>> \o LogRecs(Tail(layout), c2)

RECURSIVE Concat(_)
Concat(ss) == IF ss = <<>> THEN <<>> ELSE ss[1] \o Concat(Tail(ss))

(***************************************************************************)
(* Damage done to one frame of the log after it was written.               *)
(***************************************************************************)
ZeroKinds == {"zero8", "zeroall"}
CutKinds == {"cut4", "cut8", "cutlast"}
FaultKinds == ZeroKinds \cup CutKinds \cup {"noise4", "hdrbig", "hdrpad", "badtype", "badcrc"}

NoFault == [seg |-> 0, idx |-> 0, kind |-> "none"]

\* overwrite the last k bytes of the frame's payload and padding with b
OverwriteTail(f, k, b) ==
  LET n == Min(k, Len(f) - frameSizeBytes)
  IN [i \in 1..Len(f) |-> IF i > Len(f) - n THEN b ELSE f[i]]

Damage(f, kind) ==
  CASE kind = "zero8" -> OverwriteTail(f, 8, 0)
    [] kind = "zeroall" -> OverwriteTail(f, Len(f), 0)
    [] kind = "noise4" -> OverwriteTail(f, 4, 255)
    [] kind = "hdrbig" -> [f EXCEPT ![4] = 1]
    [] kind = "hdrpad" -> LET n == ToU56(Len(f) - (f[8] % 8) + 1)
                          IN [i \in 1..Len(f) |-> IF i <= 7 THEN n[i] ELSE f[i]]
    [] kind = "badtype" -> [f EXCEPT ![frameSizeBytes + 1] = 9]
    [] kind = "badcrc" -> [f EXCEPT ![frameSizeBytes + 2] = (f[frameSizeBytes + 2] + 1) % 256]
    [] kind = "cut4" -> SubSeq(f, 1, 4)
    [] kind = "cut8" -> SubSeq(f, 1, frameSizeBytes)
    [] kind = "cutlast" -> SubSeq(f, 1, Len(f) - 3)
    [] OTHER -> f

\* the bytes of segment s: its frames, one of them possibly damaged, then
\* tail bytes of preallocated, unwritten space
SegBytes(recs, s, flt, tail) ==
  Concat([i \in 1..Len(recs) |->
            IF flt.seg = s /\ flt.idx = i THEN Damage(Frame(recs[i]), flt.kind)
            ELSE Frame(recs[i])]) \o Zeros(tail)

(***************************************************************************)
(* The logs the decoder is run on.                                         *)
(***************************************************************************)
PreallocLen == 16
Seeds == {0, 5}

SegShapes == UNION {[1..n -> {"crc", "ent"}] : n \in 0..MaxRecs}

RECURSIVE TotalLen(_)
TotalLen(layout) == IF layout = <<>> THEN 0 ELSE Len(layout[1]) + TotalLen(Tail(layout))

\* up to MaxSegs segments holding up to MaxRecs records in all; a log of one
\* segment may begin with the filler record, or hold one record of zeros
Layouts ==
  {lay \in UNION {[1..n -> SegShapes] : n \in 1..MaxSegs} : TotalLen(lay) <= MaxRecs}
  \cup {<<<<"big">> \o sh>> : sh \in SegShapes}
  \cup {<<<<"zeros">>>>}

\* the frames of a layout that may be damaged: any but the filler
Faults(layout) ==
  {NoFault} \cup
  {[seg |-> s, idx |-> i, kind |-> k] :
     s \in 1..Len(layout), i \in 1..(MaxRecs + 1), k \in FaultKinds}

FaultFits(layout, flt) ==
  IF flt = NoFault THEN TRUE
  ELSE /\ flt.idx <= Len(layout[flt.seg])
       /\ layout[flt.seg][flt.idx] # "big"
       /\ flt.kind \in CutKinds \cup {"hdrpad"} => flt.idx = Len(layout[flt.seg])

(***************************************************************************)
(* State.                                                                  *)
(*   files                 the segment files handed to newDecoder           *)
(*   written, fault, seed0, tail0                                          *)
(*                         the records the writer put in each file, the    *)
(*                         damage done afterwards, the writer's checksum at*)
(*                         the first record, the preallocated tail         *)
(*   brs, lastValidOff, crc, mu    the decoder's fields                    *)
(*   pc, loc               each caller's position in decode and its locals *)
(*   out                   the results of the decode calls, in return order*)
(*   reseeded              updateCRC was called since the last return      *)
(*   fsIn, fsOut           argument and result of a decodeFrameSize call   *)
(*   tornIn, tornOut       arguments and result of an isTornEntry call     *)
(*   simpleTokenKeeper, simpleTokens, simpleTokensMu                       *)
(*                         the fields of the token provider (tokenSimple)  *)
(*   keepers               the TTL keepers made by enable, in order        *)
(*   clients               each caller's position in an operation of the   *)
(*                         provider and its locals                         *)
(*   now                   the clock, in ticks of the keeper's ticker      *)
(*   hist                  what the last call of assign or info returned,  *)
(*                         panic, and for each token the time of its       *)
(*                         assignment or last successful lookup plus the   *)
(*                         TTL, and the keeper it was assigned under       *)
(***************************************************************************)
VARIABLES files, written, fault, seed0, tail0, brs, lastValidOff, crc, mu, pc, loc,
          out, reseeded, fsIn, fsOut, tornIn, tornOut,
          simpleTokenKeeper, simpleTokens, simpleTokensMu, keepers, clients, now, hist,
          tws, storeMu, evIn, evOut

vars == <<files, written, fault, seed0, tail0, brs, lastValidOff, crc, mu, pc, loc,
          out, reseeded, fsIn, fsOut, tornIn, tornOut,
          simpleTokenKeeper, simpleTokens, simpleTokensMu, keepers, clients, now, hist,
          tws, storeMu, evIn, evOut>>

logVars == <<files, written, fault, seed0, tail0>>
decVars == <<brs, lastValidOff, crc, mu, pc, loc, out, reseeded>>
fsVars == <<fsIn, fsOut>>
tornVars == <<tornIn, tornOut>>
authVars == <<simpleTokenKeeper, simpleTokens, simpleTokensMu, keepers, clients, now, hist>>
txnVars == <<tws, storeMu>>
evVars == <<evIn, evOut>>
mvccVars == <<txnVars, evVars>>

\* the variables the decoder's operations leave alone
restVars == <<fsVars, tornVars, authVars, mvccVars>>

Procs == 1..NumProcs

NoRec == [type |-> 0, crc |-> 0, data |-> <<>>]

\* fsIn.enc when the length field was not made by the writer
NoEnc == [recBytes |-> <<>>, padBytes |-> 0 - 1]

\* the locals of a decode call: recBytes, padBytes, data of decodeRecord; the
\* rest records where and on what the call worked
NoLoc == [recBytes |-> 0, padBytes |-> 0, data |-> <<>>,
          file |-> 0, off |-> 0, unread |-> 0, exhausted |-> FALSE, hdr |-> FALSE,
          segsBefore |-> 0]

\* errors of decode
ErrEOF == "io.EOF"
ErrUnexpectedEOF == "io.ErrUnexpectedEOF"
ErrSizeLimit == "max entry size limit exceeded"
ErrUnmarshal == "unmarshal error"
ErrCRCMismatch == "walpb.ErrCRCMismatch"
Fatal == {ErrSizeLimit, ErrUnmarshal, ErrCRCMismatch}

(***************************************************************************)
(* newDecoder over the files of a log.                                     *)
(***************************************************************************)
LogFiles(layout, seed, flt, tail) ==
  LET recs == LogRecs(layout, seed)
  IN [s \in 1..Len(layout) |-> SegBytes(recs[s], s, flt, tail)]

DecoderInit ==
  /\ brs = [i \in 1..Len(files) |-> [file |-> i, pos |-> 0]]
  /\ lastValidOff = 0
  /\ crc = 0
  /\ mu = 0
  /\ pc = [p \in Procs |-> "lock"]
  /\ loc = [p \in Procs |-> NoLoc]
  /\ out = <<>>
  /\ reseeded = FALSE

\* no call of decodeFrameSize or isTornEntry on its own
FrameIdle ==
  /\ fsIn = [lenField |-> Zeros(8), enc |-> NoEnc]
  /\ fsOut = decodeFrameSize(Zeros(8))

TornIdle ==
  /\ tornIn = [segs |-> 0, off |-> 0, data |-> <<>>]
  /\ tornOut = [torn |-> FALSE, chunks |-> <<>>]

(***************************************************************************)
(* The watchable store: no write transaction open, its mutex free; no      *)
(* event list made yet.                                                    *)
(***************************************************************************)
Writers == 1..NumWriters

\* a goroutine without a write transaction.  trace: the calls the last End of
\* the goroutine has made, each with whether it held the store's mutex
NoTxn == [pc |-> "idle", changes |-> <<>>, beginRev |-> 0, rev |-> 0, evs |-> <<>>,
          trace |-> <<>>]

StoreIdle ==
  /\ tws = [w \in Writers |-> NoTxn]
  /\ storeMu = 0
  /\ evIn = [called |-> FALSE, changes |-> <<>>, beginRev |-> 0]
  /\ evOut = [rev |-> 0, evs |-> <<>>, changes |-> <<>>]

(***************************************************************************)
(* newTokenProviderSimple: no keeper, no token, no caller inside.          *)
(***************************************************************************)
Clients == 1..NumClients

\* a map without keys
EmptyMap == [x \in {} |-> 0]

Put(m, k, v) == [x \in DOMAIN m \cup {k} |-> IF x = k THEN v ELSE m[x]]

Del(m, ks) == [x \in DOMAIN m \ ks |-> m[x]]

\* the result of a call that has not returned anything yet
\* tk, waited: the keeper a returned disable took, and whether that keeper was
\* waiting for the mutex when it was taken
NoRet == [op |-> "none", token |-> <<>>, user |-> "", err |-> "nil", ok |-> FALSE,
          tk |-> 0, waited |-> FALSE]

ProviderInit ==
  /\ simpleTokenKeeper = 0
  /\ simpleTokens = EmptyMap
  /\ simpleTokensMu = <<>>
  /\ keepers = <<>>
  /\ clients = [c \in Clients |-> [pc |-> "idle", tk |-> 0, user |-> "", waited |-> FALSE]]
  /\ now = 0
  /\ hist = [last |-> NoRet, panicked |-> FALSE, exp |-> EmptyMap, gen |-> EmptyMap]

\* a decoder over no file
NoLog ==
  /\ files = <<>>
  /\ written = <<>>
  /\ fault = NoFault
  /\ seed0 = 0
  /\ tail0 = 0

Init ==
  /\ \E layout \in Layouts, seed \in Seeds, tail \in {0, PreallocLen} :
       \E flt \in Faults(layout) :
         /\ FaultFits(layout, flt)
         /\ seed # 0 => layout[1] # <<>> /\ layout[1][1] = "crc"
         /\ flt # NoFault => seed = 0 /\ tail = 0
         /\ files = LogFiles(layout, seed, flt, tail)
         /\ written = LogRecs(layout, seed)
         /\ fault = flt
         /\ seed0 = seed
         /\ tail0 = tail
  /\ DecoderInit
  /\ FrameIdle
  /\ TornIdle
  /\ ProviderInit
  /\ StoreIdle

(***************************************************************************)
(* decoder.isTornEntry                                                     *)
(***************************************************************************)
RECURSIVE splitChunks(_, _, _)
\* split data on sector boundaries
splitChunks(data, fileOff, curOff) ==
  IF curOff >= Len(data) THEN <<>>
  ELSE LET chunkLen == Min(minSectorSize - (fileOff % minSectorSize), Len(data) - curOff)
       IN <<SubSeq(data, curOff + 1, curOff + chunkLen)>>
            \o splitChunks(data, fileOff + chunkLen, curOff + chunkLen)

IsZero(sect) == \A j \in 1..Len(sect) : sect[j] = 0

\* a detector that splits the entry at every 512th byte of its own
isTornEntryFromStart(b, off, data) ==
  IF Len(b) # 1 THEN FALSE
  ELSE LET chunks == splitChunks(data, 0, 0)
       IN \E i \in 1..Len(chunks) : IsZero(chunks[i])

\* a detector that does not look at the number of remaining segments
isTornEntryAnySegment(b, off, data) ==
  LET chunks == splitChunks(data, off + frameSizeBytes, 0)
  IN \E i \in 1..Len(chunks) : IsZero(chunks[i])

\* a detector that takes the entry for torn when its last byte is zero
isTornEntryLastByte(b, off, data) ==
  IF Len(b) # 1 THEN FALSE
  ELSE Len(data) > 0 /\ data[Len(data)] = 0

isTornEntry(b, off, data) ==
  IF Len(b) # 1 THEN FALSE
  ELSE LET chunks == splitChunks(data, off + frameSizeBytes, 0)
       IN \E i \in 1..Len(chunks) : IsZero(chunks[i])

(***************************************************************************)
(* decoder.decodeRecord, lines 72-89: read the length field of the front   *)
(* segment, moving to the next segment at its end.                         *)
(***************************************************************************)
\* readInt64 hit io.EOF, or read a zero length
hitEndNoPrealloc(avail, l) == avail = 0

hitEnd(avail, l) == avail = 0 \/ (avail >= frameSizeBytes /\ l = Zeros(frameSizeBytes))

\* lastValidOff after moving to the next segment
offAfterAdvanceKeep(off) == off

offAfterAdvance(off) == 0

\* line 82: d.brs = d.brs[1:]
dropFrontNone(b) == b

dropFront(b) == Tail(b)

\* one pass of lines 72-89; err "advance" stands for the call of decodeRecord on
\* the next segment (line 85)
readLength(b, off) ==
  IF Len(b) = 0 THEN [brs |-> b, off |-> off, err |-> ErrEOF, l |-> Zeros(frameSizeBytes)]
  ELSE LET f == files[b[1].file]
           pos == b[1].pos
           avail == Len(f) - pos
           l == IF avail >= frameSizeBytes THEN SubSeq(f, pos + 1, pos + frameSizeBytes)
                ELSE Zeros(frameSizeBytes)
       IN IF hitEnd(avail, l)
          THEN IF Len(dropFront(b)) = 0
               THEN [brs |-> dropFront(b), off |-> off, err |-> ErrEOF, l |-> l]
               ELSE [brs |-> dropFront(b), off |-> offAfterAdvance(off),
                     err |-> "advance", l |-> l]
          ELSE IF avail < frameSizeBytes
          THEN [brs |-> [b EXCEPT ![1].pos = Len(f)], off |-> off,
                err |-> ErrUnexpectedEOF, l |-> l]
          ELSE [brs |-> [b EXCEPT ![1].pos = pos + frameSizeBytes], off |-> off,
                err |-> "nil", l |-> l]

\* lines 93-94: recBytes > maxEntryLimit
\* a limit that leaves the padding out
overLimitNoPad(recBytes, size, off, padBytes) == U56Greater(recBytes, size - off)

overLimitNever(recBytes, size, off, padBytes) == FALSE

overLimit(recBytes, size, off, padBytes) == U56Greater(recBytes, size - off - padBytes)

\* the front reader stands right after the last valid record
AtBoundary(b, off) == Len(b) = 0 \/ b[1].pos = off

\* whether the front segment and all segments behind it are at their end
RECURSIVE AllExhausted(_)
AllExhausted(b) ==
  IF Len(b) = 0 THEN TRUE
  ELSE LET f == files[b[1].file]
           avail == Len(f) - b[1].pos
       IN /\ \/ avail = 0
             \/ /\ avail >= frameSizeBytes
                /\ SubSeq(f, b[1].pos + 1, b[1].pos + frameSizeBytes) = Zeros(frameSizeBytes)
          /\ AllExhausted(Tail(b))

(***************************************************************************)
(* decoder.decode                                                          *)
(***************************************************************************)
\* the callers inside the critical section; the others are at d.mu.Lock()
InFlight == {p \in Procs : pc[p] # "lock"}

\* the deferred Unlock and the return of err (and of rec when err is nil);
\* seen is the record as unmarshalled, when unmarshalling succeeded
Return(p, err, rec, seen, l) ==
  /\ out' = Append(out, [err |-> err, rec |-> rec, seen |-> seen, stage |-> pc[p],
                         file |-> l.file, off |-> l.off,
                         recBytes |-> l.recBytes, padBytes |-> l.padBytes,
                         unread |-> l.unread, exhausted |-> l.exhausted,
                         hdr |-> l.hdr, data |-> l.data,
                         segsBefore |-> l.segsBefore, segsLeft |-> Len(brs'),
                         posEnd |-> IF Len(brs') = 0 THEN 0 ELSE brs'[1].pos,
                         crcBefore |-> crc, crcAfter |-> crc', reseeded |-> reseeded,
                         offEnd |-> lastValidOff'])
  /\ reseeded' = FALSE
  /\ mu' = 0
  /\ pc' = [pc EXCEPT ![p] = "lock"]
  /\ loc' = [loc EXCEPT ![p] = NoLoc]

\* a Lock that does not wait for the holder
LockNoWait(p) ==
  /\ pc[p] = "lock"
  /\ Len(out) + Cardinality(InFlight) < MaxCalls
  /\ mu' = p
  /\ pc' = [pc EXCEPT ![p] = "header"]
  /\ loc' = [loc EXCEPT ![p].exhausted = AtBoundary(brs, lastValidOff) /\ AllExhausted(brs),
                         ![p].segsBefore = Len(brs)]
  /\ UNCHANGED <<logVars, restVars, brs, lastValidOff, crc, out, reseeded>>

\* d.mu.Lock()
Lock(p) ==
  /\ pc[p] = "lock"
  /\ Len(out) + Cardinality(InFlight) < MaxCalls
  /\ mu = 0
  /\ mu' = p
  /\ pc' = [pc EXCEPT ![p] = "header"]
  /\ loc' = [loc EXCEPT ![p].exhausted = AtBoundary(brs, lastValidOff) /\ AllExhausted(brs),
                         ![p].segsBefore = Len(brs)]
  /\ UNCHANGED <<logVars, restVars, brs, lastValidOff, crc, out, reseeded>>

\* decodeRecord, lines 72-97
DecodeHeader(p) ==
  /\ pc[p] = "header"
  /\ LET h == readLength(brs, lastValidOff)
         size == IF Len(h.brs) = 0 THEN 0 ELSE Len(files[h.brs[1].file])
         fs == decodeFrameSize(h.l)
         l == [loc[p] EXCEPT !.file = IF Len(h.brs) = 0 THEN 0 ELSE h.brs[1].file,
                             !.off = h.off,
                             !.hdr = (h.err = "nil"),
                             !.unread = IF Len(h.brs) = 0 THEN 0 ELSE size - h.brs[1].pos,
                             !.padBytes = IF h.err = "nil" THEN fs.padBytes ELSE 0,
                             !.recBytes = IF h.err = "nil" THEN U56Clamp(fs.recBytes) ELSE 0]
     IN /\ brs' = h.brs
        /\ lastValidOff' = h.off
        /\ crc' = crc
        /\ IF h.err = "advance"
           THEN UNCHANGED <<mu, pc, loc, out, reseeded>>
           ELSE IF h.err # "nil"
           THEN Return(p, h.err, NoRec, NoRec, l)
           ELSE IF overLimit(fs.recBytes, size, h.off, fs.padBytes)
           THEN Return(p, ErrSizeLimit, NoRec, NoRec, l)
           ELSE /\ loc' = [loc EXCEPT ![p] = l]
                /\ pc' = [pc EXCEPT ![p] = "read"]
                /\ UNCHANGED <<mu, out, reseeded>>
  /\ UNCHANGED <<logVars, restVars>>

\* the error of io.ReadFull as decodeRecord returns it, lines 103-105
shortReadErrRaw(got) == IF got = 0 THEN ErrEOF ELSE ErrUnexpectedEOF

shortReadErr(got) ==
  LET err == IF got = 0 THEN ErrEOF ELSE ErrUnexpectedEOF
  IN IF err = ErrEOF THEN ErrUnexpectedEOF ELSE err

\* the length of the data read after the length field, line 99
dataLenNoPad(recBytes, padBytes) == recBytes

dataLen(recBytes, padBytes) == recBytes + padBytes

\* decodeRecord, lines 99-107
ReadPayload(p) ==
  /\ pc[p] = "read"
  /\ UNCHANGED <<logVars, restVars, lastValidOff>>
  /\ LET f == files[brs[1].file]
         pos == brs[1].pos
         n == dataLen(loc[p].recBytes, loc[p].padBytes)
         avail == Len(f) - pos
     IN IF avail < n
        THEN /\ brs' = [brs EXCEPT ![1].pos = Len(f)]
             /\ crc' = crc
             /\ Return(p, shortReadErr(avail), NoRec, NoRec, loc[p])
        ELSE /\ brs' = [brs EXCEPT ![1].pos = pos + n]
             /\ crc' = crc
             /\ loc' = [loc EXCEPT ![p].data = SubSeq(f, pos + 1, pos + n)]
             /\ pc' = [pc EXCEPT ![p] = "check"]
             /\ UNCHANGED <<mu, out, reseeded>>

\* line 116: whether the record's checksum is checked
checkedNever(r) == FALSE

checked(r) == r.type # crcType

\* line 126
offAfterRecord(off, recBytes, padBytes) == off + frameSizeBytes + recBytes + padBytes

\* the checksum chain after a control record: decodeRecord leaves it alone
chainAfterControlReseed(c, r) == r.crc

chainAfterControl(c, r) == c

\* decodeRecord, lines 108-127
UnmarshalValidate(p) ==
  /\ pc[p] = "check"
  /\ UNCHANGED <<logVars, restVars, brs>>
  /\ LET data == loc[p].data
         body == SubSeq(data, 1, Min(loc[p].recBytes, Len(data)))
         r == Unmarshal(body)
         sum == crcWrite(crc, r.data)
         tornErr(err) == IF isTornEntry(brs, lastValidOff, data) THEN ErrUnexpectedEOF ELSE err
         nextOff == offAfterRecord(lastValidOff, loc[p].recBytes, loc[p].padBytes)
     IN IF ~UnmarshalOK(body)
        THEN /\ crc' = crc
             /\ lastValidOff' = lastValidOff
             /\ Return(p, tornErr(ErrUnmarshal), NoRec, NoRec, loc[p])
        ELSE IF checked(r)
        THEN /\ crc' = sum
             /\ IF ~Validate(r, sum)
                THEN /\ lastValidOff' = lastValidOff
                     /\ Return(p, tornErr(ErrCRCMismatch), NoRec, r, loc[p])
                ELSE /\ lastValidOff' = nextOff
                     /\ Return(p, "nil", r, r, loc[p])
        ELSE /\ crc' = chainAfterControl(crc, r)
             /\ lastValidOff' = nextOff
             /\ Return(p, "nil", r, r, loc[p])

\* decoder.updateCRC, called as the reader of the log does: with the checksum
\* of the control record that decode returned last
UpdateCRC ==
  /\ Len(out) > 0
  /\ out[Len(out)].err = "nil"
  /\ out[Len(out)].rec.type = crcType
  /\ crc' = out[Len(out)].rec.crc
  /\ reseeded' = TRUE
  /\ UNCHANGED <<logVars, restVars, brs, lastValidOff, mu, pc, loc, out>>

Next ==
  \/ \E p \in Procs : Lock(p)
  \/ \E p \in Procs : DecodeHeader(p)
  \/ \E p \in Procs : ReadPayload(p)
  \/ \E p \in Procs : UnmarshalValidate(p)
  \/ UpdateCRC

Spec == Init /\ [][Next]_vars

\* a caller inside decode keeps running: it holds the mutex and waits for
\* nothing but its own reads (one caller at a time is inside decode)
DecodeRuns ==
  WF_vars(\E p \in Procs : DecodeHeader(p) \/ ReadPayload(p) \/ UnmarshalValidate(p))

\* the logs without the filler record and the record of zeros
ShortRecords ==
  \A s \in 1..Len(written) : \A i \in 1..Len(written[s]) :
    Len(written[s][i].data) <= Len(EntData)

InitLive == Init /\ ShortRecords

SpecLive == InitLive /\ [][Next]_vars /\ DecodeRuns

(***************************************************************************)
(* decodeFrameSize on its own: any length field, and the length fields the *)
(* writer makes.                                                           *)
(***************************************************************************)
RecSamples == {ToU56(0), ToU56(14), ToU56(65535), <<255, 255, 255, 255, 255, 255, 255>>,
               <<0, 0, 0, 1, 0, 0, 128>>, <<1, 0, 0, 0, 0, 0, 255>>}

InitFrame ==
  /\ NoLog
  /\ DecoderInit
  /\ FrameIdle
  /\ TornIdle
  /\ ProviderInit
  /\ StoreIdle

\* decodeFrameSize of an arbitrary length field
FrameDecode ==
  /\ \E low \in RecSamples, top \in Byte :
       /\ fsIn' = [lenField |-> low \o <<top>>, enc |-> NoEnc]
       /\ fsOut' = decodeFrameSize(low \o <<top>>)
  /\ UNCHANGED <<logVars, decVars, tornVars, authVars, mvccVars>>

\* decodeFrameSize of the writer's length field for (recBytes, padBytes)
FrameRoundTrip ==
  /\ \E rb \in RecSamples, pb \in 0..7 :
       /\ fsIn' = [lenField |-> encodeFrameSize(rb, pb),
                   enc |-> [recBytes |-> rb, padBytes |-> pb]]
       /\ fsOut' = decodeFrameSize(encodeFrameSize(rb, pb))
  /\ UNCHANGED <<logVars, decVars, tornVars, authVars, mvccVars>>

NextFrame == FrameDecode \/ FrameRoundTrip

SpecFrame == InitFrame /\ [][NextFrame]_vars

(***************************************************************************)
(* isTornEntry on its own: a decoder with some segments left, the offset   *)
(* of the frame and the bytes read after its length field.                 *)
(***************************************************************************)
TornOffs == {0, 8, 16, 488, 496, 504, 1016}

\* n bytes, the k bytes from the i-th on zero, the others not
ZeroRun(n, i, k) == [j \in 1..n |-> IF j >= i /\ j < i + k THEN 0 ELSE 7]

TornData ==
  {<<>>, Zeros(8), Zeros(16), Zeros(520), ZeroRun(8, 0, 0), ZeroRun(8, 4, 1),
   ZeroRun(16, 9, 8), ZeroRun(16, 1, 8), ZeroRun(24, 9, 8), ZeroRun(520, 9, 504),
   ZeroRun(520, 17, 503), ZeroRun(528, 9, 512), ZeroRun(1032, 505, 512),
   ZeroRun(1032, 505, 511), ZeroRun(1032, 1, 504), ZeroRun(1032, 1025, 8)}

InitTorn ==
  /\ NoLog
  /\ DecoderInit
  /\ FrameIdle
  /\ TornIdle
  /\ ProviderInit
  /\ StoreIdle

\* isTornEntry(data) on a decoder with n segments left and lastValidOff = off
TornCall ==
  /\ \E n \in 0..MaxSegs, off \in TornOffs, data \in TornData :
       /\ tornIn' = [segs |-> n, off |-> off, data |-> data]
       /\ tornOut' = [torn |-> isTornEntry([i \in 1..n |-> [file |-> i, pos |-> 0]], off, data),
                      chunks |-> splitChunks(data, off + frameSizeBytes, 0)]
  /\ UNCHANGED <<logVars, decVars, fsVars, authVars, mvccVars>>

NextTorn == TornCall

SpecTorn == InitTorn /\ [][NextTorn]_vars

(***************************************************************************)
(* The simple token provider of server/auth (simple_token.go): tokenSimple *)
(* and its simpleTokenTTLKeeper.  Strings are sequences of characters;     *)
(* times are counted in periods of the keeper's ticker.                    *)
(***************************************************************************)
letters == <<"a", "b", "c", "d", "e", "f", "g", "h", "i", "j", "k", "l", "m",
             "n", "o", "p", "q", "r", "s", "t", "u", "v", "w", "x", "y", "z",
             "A", "B", "C", "D", "E", "F", "G", "H", "I", "J", "K", "L", "M",
             "N", "O", "P", "Q", "R", "S", "T", "U", "V", "W", "X", "Y", "Z">>
defaultSimpleTokenLength == 16
simpleTokenTTLDefault == 300
simpleTokenTTLResolution == 1

Digits == <<"0", "1", "2", "3", "4", "5", "6", "7", "8", "9">>

IsDigit(ch) == \E d \in 1..Len(Digits) : Digits[d] = ch

RECURSIVE FormatUint(_)
\* the verb %d
FormatUint(n) ==
  IF n < 10 THEN <<Digits[n + 1]>>
  ELSE FormatUint(n \div 10) \o <<Digits[(n % 10) + 1]>>

\* fmt.Sprintf("%s.%d", simpleTokenPrefix, index)
FormatToken(prefix, index) == prefix \o <<".">> \o FormatUint(index)

RECURSIVE Split(_)
\* strings.Split(token, ".")
Split(str) ==
  IF \A i \in 1..Len(str) : str[i] # "." THEN <<str>>
  ELSE LET i == CHOOSE i \in 1..Len(str) : str[i] = "." /\ \A j \in 1..(i - 1) : str[j] # "."
       IN <<SubSeq(str, 1, i - 1)>> \o Split(SubSeq(str, i + 1, Len(str)))

\* strconv.ParseUint(str, 10, 0) returns no error
ParseUintOK(str) == Len(str) > 0 /\ \A i \in 1..Len(str) : IsDigit(str[i])

\* reached: the channel of indexWaiter(index) is closed before ctx is done
isValidSimpleToken(token, reached) ==
  LET splitted == Split(token)
  IN IF Len(splitted) # 2 THEN FALSE
     ELSE IF ~ParseUintOK(splitted[2]) THEN FALSE
     ELSE reached

\* prefixes as genTokenPrefix makes them: defaultSimpleTokenLength letters
Prefixes == {[i \in 1..defaultSimpleTokenLength |-> letters[1]]}

Users == {"alice", "bob"}

\* the contexts of assign: without an index, or with index and token prefix
Contexts ==
  {[hasIndex |-> FALSE, index |-> 0, prefix |-> <<>>]} \cup
  {[hasIndex |-> TRUE, index |-> i, prefix |-> p] : i \in 1..MaxIndex, p \in Prefixes}

\* the tokens info is asked about: tokens as assign makes them, a token without
\* index, one with an index that is no number
InfoTokens ==
  {FormatToken(p, i) : p \in Prefixes, i \in 1..MaxIndex} \cup
  {<<"a">>, <<"a", ".", "x">>, <<"a", ".", "1", ".", "2">>}

\* enable, lines 192-194
simpleTokenTTL == IF TokenTTL <= 0 THEN simpleTokenTTLDefault ELSE TokenTTL

\* the holders of simpleTokensMu; <<>> when it is free
ClientHolds(c) == <<"client", c>>
KeeperHolds(k) == <<"keeper", k>>
MuFree == simpleTokensMu = <<>>

\* a caller may begin an operation
CanStart(c) == clients[c].pc = "idle" /\ ~hist.panicked

\* simpleTokenTTLKeeper.addSimpleToken
addSimpleToken(tokens, token, ttl) == Put(tokens, token, now + ttl)

\* simpleTokenTTLKeeper.resetSimpleToken
resetSimpleToken(tokens, token, ttl) ==
  IF token \in DOMAIN tokens THEN Put(tokens, token, now + ttl) ELSE tokens

\* simpleTokenTTLKeeper.deleteSimpleToken, for each of a set of tokens
deleteSimpleToken(tokens, ts) == Del(tokens, ts)

\* tokenSimple.enable
Enable(c) ==
  /\ CanStart(c)
  /\ MuFree
  /\ IF simpleTokenKeeper # 0
     THEN UNCHANGED <<simpleTokenKeeper, keepers>>
     ELSE /\ Len(keepers) < MaxKeepers
          /\ keepers' = Append(keepers, [tokens |-> EmptyMap, pc |-> "select", nowtime |-> 0,
                                         tick |-> FALSE, simpleTokenTTL |-> simpleTokenTTL])
          /\ simpleTokenKeeper' = Len(keepers) + 1
  /\ hist' = [hist EXCEPT !.last = NoRet]
  /\ UNCHANGED <<simpleTokens, simpleTokensMu, clients, now>>
  /\ UNCHANGED <<logVars, decVars, fsVars, tornVars, mvccVars>>

\* tokenSimple.assign with assignSimpleTokenToUser
Assign(c, username, ctx) ==
  /\ CanStart(c)
  /\ MuFree
  /\ LET token == FormatToken(ctx.prefix, ctx.index)
         k == simpleTokenKeeper
     IN IF ~ctx.hasIndex
        THEN /\ hist' = [hist EXCEPT !.last = [NoRet EXCEPT !.op = "assign",
                                                          !.err = "failed to assign"]]
             /\ UNCHANGED <<simpleTokens, keepers>>
        ELSE IF k = 0
        THEN /\ hist' = [hist EXCEPT !.last = [NoRet EXCEPT !.op = "assign", !.token = token]]
             /\ UNCHANGED <<simpleTokens, keepers>>
        ELSE IF token \in DOMAIN simpleTokens
        THEN \* lg.Panic
             /\ hist' = [hist EXCEPT !.last = NoRet, !.panicked = TRUE]
             /\ UNCHANGED <<simpleTokens, keepers>>
        ELSE /\ simpleTokens' = Put(simpleTokens, token, username)
             /\ keepers' = [keepers EXCEPT ![k].tokens =
                              addSimpleToken(@, token, keepers[k].simpleTokenTTL)]
             /\ hist' = [hist EXCEPT !.last = [NoRet EXCEPT !.op = "assign", !.token = token],
                                     !.exp = Put(@, token, now + simpleTokenTTL),
                                     !.gen = Put(@, token, k)]
  /\ UNCHANGED <<simpleTokenKeeper, simpleTokensMu, clients, now>>
  /\ UNCHANGED <<logVars, decVars, fsVars, tornVars, mvccVars>>

\* what info returns for a token, and whether it is found
infoLookup(tokens, token, reached) ==
  IF ~isValidSimpleToken(token, reached) THEN [user |-> "", ok |-> FALSE]
  ELSE IF token \in DOMAIN tokens THEN [user |-> tokens[token], ok |-> TRUE]
  ELSE [user |-> "", ok |-> FALSE]

\* tokenSimple.info
Info(c, token, reached) ==
  /\ CanStart(c)
  /\ MuFree
  /\ LET r == infoLookup(simpleTokens, token, reached)
         k == simpleTokenKeeper
     IN /\ IF r.ok /\ k # 0
           THEN keepers' = [keepers EXCEPT ![k].tokens =
                              resetSimpleToken(@, token, keepers[k].simpleTokenTTL)]
           ELSE UNCHANGED keepers
        /\ hist' = [hist EXCEPT !.last = [NoRet EXCEPT !.op = "info", !.user = r.user,
                                                       !.ok = r.ok],
                                !.exp = IF r.ok THEN Put(@, token, now + simpleTokenTTL) ELSE @]
  /\ UNCHANGED <<simpleTokenKeeper, simpleTokens, simpleTokensMu, clients, now>>
  /\ UNCHANGED <<logVars, decVars, fsVars, tornVars, mvccVars>>

\* tokenSimple.invalidateUser, lines 170-172: the keeper is read without the
\* mutex
InvalidateCheck(c, username) ==
  /\ CanStart(c)
  /\ clients' = [clients EXCEPT ![c].pc = IF simpleTokenKeeper = 0 THEN "idle" ELSE "invalidate",
                                ![c].user = IF simpleTokenKeeper = 0 THEN "" ELSE username]
  /\ hist' = [hist EXCEPT !.last = NoRet]
  /\ UNCHANGED <<simpleTokenKeeper, simpleTokens, simpleTokensMu, keepers, now>>
  /\ UNCHANGED <<logVars, decVars, fsVars, tornVars, mvccVars>>

\* tokenSimple.invalidateUser, lines 173-180
InvalidateBody(c) ==
  /\ clients[c].pc = "invalidate"
  /\ ~hist.panicked
  /\ MuFree
  /\ LET named == {t \in DOMAIN simpleTokens : simpleTokens[t] = clients[c].user}
         k == simpleTokenKeeper
     IN IF named # {} /\ k = 0
        THEN \* deleteSimpleToken on a nil keeper
             /\ hist' = [hist EXCEPT !.panicked = TRUE]
             /\ UNCHANGED <<simpleTokens, keepers, clients>>
        ELSE /\ simpleTokens' = Del(simpleTokens, named)
             /\ keepers' = IF k = 0 THEN keepers
                           ELSE [keepers EXCEPT ![k].tokens = deleteSimpleToken(@, named)]
             /\ clients' = [clients EXCEPT ![c].pc = "idle", ![c].user = ""]
             /\ hist' = [hist EXCEPT !.exp = Del(@, named), !.gen = Del(@, named)]
  /\ UNCHANGED <<simpleTokenKeeper, simpleTokensMu, now>>
  /\ UNCHANGED <<logVars, decVars, fsVars, tornVars, mvccVars>>

\* a caller enters disable and waits for the mutex
DisableCall(c) ==
  /\ CanStart(c)
  /\ clients' = [clients EXCEPT ![c].pc = "dlock"]
  /\ hist' = [hist EXCEPT !.last = NoRet]
  /\ UNCHANGED <<simpleTokenKeeper, simpleTokens, simpleTokensMu, keepers, now>>
  /\ UNCHANGED <<logVars, decVars, fsVars, tornVars, mvccVars>>

\* tokenSimple.disable, line 221
DisableLock(c) ==
  /\ clients[c].pc = "dlock"
  /\ ~hist.panicked
  /\ MuFree
  /\ simpleTokensMu' = ClientHolds(c)
  /\ clients' = [clients EXCEPT ![c].pc = "disable"]
  /\ UNCHANGED <<simpleTokenKeeper, simpleTokens, keepers, now, hist>>
  /\ UNCHANGED <<logVars, decVars, fsVars, tornVars, mvccVars>>

\* tokenSimple.disable, lines 222-226
DisableBody(c) ==
  /\ clients[c].pc = "disable"
  /\ ~hist.panicked
  /\ simpleTokenKeeper' = 0
  /\ simpleTokens' = EmptyMap
  /\ simpleTokensMu' = <<>>
  /\ clients' = [clients EXCEPT ![c].tk = simpleTokenKeeper,
                                ![c].pc = IF simpleTokenKeeper # 0 THEN "stop" ELSE "idle",
                                ![c].waited = simpleTokenKeeper # 0 /\
                                              keepers[simpleTokenKeeper].pc = "lock"]
  /\ hist' = [hist EXCEPT !.exp = EmptyMap, !.gen = EmptyMap,
                          !.last = IF simpleTokenKeeper # 0 THEN NoRet
                                   ELSE [NoRet EXCEPT !.op = "disable"]]
  /\ UNCHANGED <<keepers, now>>
  /\ UNCHANGED <<logVars, decVars, fsVars, tornVars, mvccVars>>

\* simpleTokenTTLKeeper.stop, lines 59-62: the send on stopc meets the keeper
\* at its select, or donec is closed already
StopSelect(c) ==
  /\ clients[c].pc = "stop"
  /\ ~hist.panicked
  /\ LET k == clients[c].tk
     IN IF keepers[k].pc = "done"
        THEN UNCHANGED keepers
        ELSE /\ keepers[k].pc = "select"
             /\ keepers' = [keepers EXCEPT ![k].pc = "stopped"]
  /\ clients' = [clients EXCEPT ![c].pc = "wait"]
  /\ UNCHANGED <<simpleTokenKeeper, simpleTokens, simpleTokensMu, now, hist>>
  /\ UNCHANGED <<logVars, decVars, fsVars, tornVars, mvccVars>>

\* line 63: the receive from donec returns once donec is closed
stopReturnsAtOnce(kpc) == TRUE

stopReturns(kpc) == kpc = "done"

\* simpleTokenTTLKeeper.stop, line 63, and the return of disable
StopWait(c) ==
  /\ clients[c].pc = "wait"
  /\ ~hist.panicked
  /\ stopReturns(keepers[clients[c].tk].pc)
  /\ clients' = [clients EXCEPT ![c].pc = "idle", ![c].tk = 0, ![c].waited = FALSE]
  /\ hist' = [hist EXCEPT !.last = [NoRet EXCEPT !.op = "disable", !.tk = clients[c].tk,
                                                 !.waited = clients[c].waited]]
  /\ UNCHANGED <<simpleTokenKeeper, simpleTokens, simpleTokensMu, keepers, now>>
  /\ UNCHANGED <<logVars, decVars, fsVars, tornVars, mvccVars>>

(***************************************************************************)
(* simpleTokenTTLKeeper.run                                                *)
(***************************************************************************)
Keepers == 1..Len(keepers)

\* the ticker of a keeper runs until the deferred Stop
Ticking(k) == keepers[k].pc \in {"select", "lock", "expire"}

\* a period of the ticker passes: the clock moves on and every running ticker
\* has a tick ready (a tick not taken yet is dropped)
ClockTick ==
  /\ now < MaxTime
  /\ ~hist.panicked
  /\ now' = now + simpleTokenTTLResolution
  /\ keepers' = [k \in Keepers |-> IF Ticking(k) THEN [keepers[k] EXCEPT !.tick = TRUE]
                                   ELSE keepers[k]]
  /\ UNCHANGED <<simpleTokenKeeper, simpleTokens, simpleTokensMu, clients, hist>>
  /\ UNCHANGED <<logVars, decVars, fsVars, tornVars, mvccVars>>

\* lines 100-101: the keeper takes the tick and reads the time
KeeperTick(k) ==
  /\ keepers[k].pc = "select"
  /\ ~hist.panicked
  /\ keepers[k].tick
  /\ keepers' = [keepers EXCEPT ![k].tick = FALSE, ![k].nowtime = now, ![k].pc = "lock"]
  /\ UNCHANGED <<simpleTokenKeeper, simpleTokens, simpleTokensMu, clients, now, hist>>
  /\ UNCHANGED <<logVars, decVars, fsVars, tornVars, mvccVars>>

\* a keeper that does not wait for the mutex
KeeperLockNoWait(k) ==
  /\ keepers[k].pc = "lock"
  /\ ~hist.panicked
  /\ simpleTokensMu' = KeeperHolds(k)
  /\ keepers' = [keepers EXCEPT ![k].pc = "expire"]
  /\ UNCHANGED <<simpleTokenKeeper, simpleTokens, clients, now, hist>>
  /\ UNCHANGED <<logVars, decVars, fsVars, tornVars, mvccVars>>

\* line 102
KeeperLock(k) ==
  /\ keepers[k].pc = "lock"
  /\ ~hist.panicked
  /\ MuFree
  /\ simpleTokensMu' = KeeperHolds(k)
  /\ keepers' = [keepers EXCEPT ![k].pc = "expire"]
  /\ UNCHANGED <<simpleTokenKeeper, simpleTokens, clients, now, hist>>
  /\ UNCHANGED <<logVars, decVars, fsVars, tornVars, mvccVars>>

\* line 104, with a comparison that takes the expiry time itself for expired
afterOrAt(nowtime, tokenendtime) == nowtime >= tokenendtime

\* line 104: nowtime.After(tokenendtime)
after(nowtime, tokenendtime) == nowtime > tokenendtime

\* lines 103-109: deleteTokenFunc (enable, lines 196-205) and delete for every
\* token past its end time, then Unlock
KeeperExpire(k) ==
  /\ keepers[k].pc = "expire"
  /\ ~hist.panicked
  /\ LET ended == {t \in DOMAIN keepers[k].tokens : after(keepers[k].nowtime, keepers[k].tokens[t])}
         deleted == ended \cap DOMAIN simpleTokens
     IN /\ simpleTokens' = Del(simpleTokens, deleted)
        /\ keepers' = [keepers EXCEPT ![k].tokens = Del(@, ended), ![k].pc = "select",
                                       ![k].nowtime = 0]
        /\ hist' = [hist EXCEPT !.exp = Del(@, deleted), !.gen = Del(@, deleted)]
  /\ simpleTokensMu' = <<>>
  /\ UNCHANGED <<simpleTokenKeeper, clients, now>>
  /\ UNCHANGED <<logVars, decVars, fsVars, tornVars, mvccVars>>

\* lines 94-97 after the receive from stopc: the ticker is stopped, donec
\* closed; nothing reads the keeper's table any more
KeeperExit(k) ==
  /\ keepers[k].pc = "stopped"
  /\ ~hist.panicked
  /\ keepers' = [keepers EXCEPT ![k].pc = "done", ![k].tick = FALSE, ![k].tokens = EmptyMap]
  /\ UNCHANGED <<simpleTokenKeeper, simpleTokens, simpleTokensMu, clients, now, hist>>
  /\ UNCHANGED <<logVars, decVars, fsVars, tornVars, mvccVars>>

InitAuth ==
  /\ NoLog
  /\ DecoderInit
  /\ FrameIdle
  /\ TornIdle
  /\ ProviderInit
  /\ StoreIdle

NextAuth ==
  \/ \E c \in Clients : Enable(c)
  \/ \E c \in Clients, u \in Users, ctx \in Contexts : Assign(c, u, ctx)
  \/ \E c \in Clients, t \in InfoTokens, reached \in BOOLEAN : Info(c, t, reached)
  \/ \E c \in Clients, u \in Users : InvalidateCheck(c, u)
  \/ \E c \in Clients : InvalidateBody(c)
  \/ \E c \in Clients : DisableCall(c)
  \/ \E c \in Clients : DisableLock(c)
  \/ \E c \in Clients : DisableBody(c)
  \/ \E c \in Clients : StopSelect(c)
  \/ \E c \in Clients : StopWait(c)
  \/ ClockTick
  \/ \E k \in Keepers : KeeperTick(k)
  \/ \E k \in Keepers : KeeperLock(k)
  \/ \E k \in Keepers : KeeperExpire(k)
  \/ \E k \in Keepers : KeeperExit(k)

SpecAuth == InitAuth /\ [][NextAuth]_vars

\* Scheduling: sync.Mutex hands the mutex to a goroutine that keeps waiting for
\* it, a goroutine that can run does run, and a select with a ready send on
\* stopc takes it sooner or later.
AuthRuns ==
  /\ \A c \in Clients :
       /\ SF_vars(DisableLock(c))
       /\ WF_vars(DisableBody(c))
       /\ SF_vars(StopSelect(c))
       /\ WF_vars(StopWait(c))
  /\ \A k \in 1..MaxKeepers :
       /\ SF_vars(k \in Keepers /\ KeeperLock(k))
       /\ WF_vars(k \in Keepers /\ KeeperExpire(k))
       /\ WF_vars(k \in Keepers /\ KeeperExit(k))

SpecAuthLive == InitAuth /\ [][NextAuth]_vars /\ AuthRuns

(***************************************************************************)
(* watchableStoreTxnWrite.End of server/storage/mvcc                       *)
(* (watchable_store_txn.go).  A key-value carries the fields End reads or  *)
(* writes and its key.                                                     *)
(***************************************************************************)
KeyValues == [Key : {"a", "b"}, CreateRevision : 0..MaxRev, ModRevision : 0..MaxRev]

\* the lists tw.Changes() can return
ChangeLists == UNION {[1..n -> KeyValues] : n \in 0..MaxChanges}

\* line 35
revAfter(beginRev) == beginRev + 1

\* an event type taken from the revision of the last modification
eventTypeByMod(change) == IF change.ModRevision = 0 THEN "DELETE" ELSE "PUT"

\* lines 39-44
eventType(change) == IF change.CreateRevision = 0 THEN "DELETE" ELSE "PUT"

\* lines 38-41: evs[i].Kv points to changes[i], whose ModRevision a DELETE sets
eventKv(change, rev) ==
  IF eventType(change) = "DELETE" THEN [change EXCEPT !.ModRevision = rev] ELSE change

\* lines 36-45
makeEvents(changes, rev) ==
  [i \in 1..Len(changes) |-> [Type |-> eventType(changes[i]), Kv |-> eventKv(changes[i], rev)]]

\* the slice of changes after the loop: the key-values the events point to
changesAfter(changes, rev) == [i \in 1..Len(changes) |-> makeEvents(changes, rev)[i].Kv]

InitEvents ==
  /\ NoLog
  /\ DecoderInit
  /\ FrameIdle
  /\ TornIdle
  /\ ProviderInit
  /\ StoreIdle

\* lines 27-45 of End on a transaction with changes, begun at revision beginRev
EventsCall ==
  /\ ~evIn.called
  /\ \E changes \in ChangeLists, beginRev \in 0..MaxRev :
       /\ Len(changes) # 0
       /\ evIn' = [called |-> TRUE, changes |-> changes, beginRev |-> beginRev]
       /\ evOut' = [rev |-> revAfter(beginRev),
                    evs |-> makeEvents(changes, revAfter(beginRev)),
                    changes |-> changesAfter(changes, revAfter(beginRev))]
  /\ UNCHANGED <<logVars, decVars, fsVars, tornVars, authVars, txnVars>>

NextEvents == EventsCall

SpecEvents == InitEvents /\ [][NextEvents]_vars

\* the changes of the write transactions that run against each other: none, a
\* put, a delete followed by a put
TxnSamples ==
  {<<>>,
   <<[Key |-> "a", CreateRevision |-> 1, ModRevision |-> 1]>>,
   <<[Key |-> "a", CreateRevision |-> 0, ModRevision |-> 0],
     [Key |-> "b", CreateRevision |-> 1, ModRevision |-> 1]>>}

\* a call made by End, as the trace of a transaction keeps it
Call(w, op, rev, evs) == [op |-> op, held |-> storeMu = w, rev |-> rev, evs |-> evs]

\* watchableStore.Write: a goroutine opens a write transaction; its changes
\* are those the transaction will have made when End is called
Write(w) ==
  /\ tws[w].pc = "idle"
  /\ \E changes \in TxnSamples, beginRev \in 0..MaxRev :
       tws' = [tws EXCEPT ![w] = [NoTxn EXCEPT !.pc = "open", !.changes = changes,
                                               !.beginRev = beginRev]]
  /\ UNCHANGED <<storeMu, evVars>>
  /\ UNCHANGED <<logVars, decVars, fsVars, tornVars, authVars>>

\* lines 27-31: End of a transaction without changes
EndEmpty(w) ==
  /\ tws[w].pc = "open"
  /\ Len(tws[w].changes) = 0
  /\ tws' = [tws EXCEPT ![w].pc = "idle",
                        ![w].trace = Append(@, Call(w, "TxnWrite.End", 0, <<>>))]
  /\ UNCHANGED <<storeMu, evVars>>
  /\ UNCHANGED <<logVars, decVars, fsVars, tornVars, authVars>>

\* lines 27-45: End of a transaction with changes makes the events
EndPrepare(w) ==
  /\ tws[w].pc = "open"
  /\ Len(tws[w].changes) # 0
  /\ LET rev == revAfter(tws[w].beginRev)
     IN tws' = [tws EXCEPT ![w].pc = "lock",
                           ![w].rev = rev,
                           ![w].evs = makeEvents(tws[w].changes, rev),
                           ![w].changes = changesAfter(tws[w].changes, rev)]
  /\ UNCHANGED <<storeMu, evVars>>
  /\ UNCHANGED <<logVars, decVars, fsVars, tornVars, authVars>>

\* a Lock that does not wait for the mutex
EndLockNoWait(w) ==
  /\ tws[w].pc = "lock"
  /\ storeMu' = w
  /\ tws' = [tws EXCEPT ![w].pc = "notify",
                        ![w].trace = Append(@, [op |-> "Lock", held |-> TRUE, rev |-> 0,
                                                evs |-> <<>>])]
  /\ UNCHANGED evVars
  /\ UNCHANGED <<logVars, decVars, fsVars, tornVars, authVars>>

\* line 49
EndLock(w) ==
  /\ tws[w].pc = "lock"
  /\ storeMu = 0
  /\ storeMu' = w
  /\ tws' = [tws EXCEPT ![w].pc = "notify",
                        ![w].trace = Append(@, [op |-> "Lock", held |-> TRUE, rev |-> 0,
                                                evs |-> <<>>])]
  /\ UNCHANGED evVars
  /\ UNCHANGED <<logVars, decVars, fsVars, tornVars, authVars>>

\* line 50
EndNotify(w) ==
  /\ tws[w].pc = "notify"
  /\ tws' = [tws EXCEPT ![w].pc = "end",
                        ![w].trace = Append(@, Call(w, "notify", tws[w].rev, tws[w].evs))]
  /\ UNCHANGED <<storeMu, evVars>>
  /\ UNCHANGED <<logVars, decVars, fsVars, tornVars, authVars>>

\* line 51
EndTxnWrite(w) ==
  /\ tws[w].pc = "end"
  /\ tws' = [tws EXCEPT ![w].pc = "unlock",
                        ![w].trace = Append(@, Call(w, "TxnWrite.End", 0, <<>>))]
  /\ UNCHANGED <<storeMu, evVars>>
  /\ UNCHANGED <<logVars, decVars, fsVars, tornVars, authVars>>

\* lines 52-53
EndUnlock(w) ==
  /\ tws[w].pc = "unlock"
  /\ storeMu' = 0
  /\ tws' = [tws EXCEPT ![w].pc = "idle",
                        ![w].trace = Append(@, [op |-> "Unlock", held |-> FALSE, rev |-> 0,
                                                evs |-> <<>>])]
  /\ UNCHANGED evVars
  /\ UNCHANGED <<logVars, decVars, fsVars, tornVars, authVars>>

InitTxn ==
  /\ NoLog
  /\ DecoderInit
  /\ FrameIdle
  /\ TornIdle
  /\ ProviderInit
  /\ StoreIdle

NextTxn ==
  \/ \E w \in Writers : Write(w)
  \/ \E w \in Writers : EndEmpty(w)
  \/ \E w \in Writers : EndPrepare(w)
  \/ \E w \in Writers : EndLock(w)
  \/ \E w \in Writers : EndNotify(w)
  \/ \E w \in Writers : EndTxnWrite(w)
  \/ \E w \in Writers : EndUnlock(w)

SpecTxn == InitTxn /\ [][NextTxn]_vars

(***************************************************************************)
(* Properties.                                                             *)
(***************************************************************************)
TypeOK ==
  /\ lastValidOff \in Nat
  /\ crc \in Byte
  /\ mu \in 0..NumProcs
  /\ Len(out) <= MaxCalls

\* the records of the log in the order written
AllWritten == Concat(written)

\* every frame complete, checksums chained from the start of the log
WellFormed == fault = NoFault /\ seed0 = 0

\* no decode call has returned PossiblyTorn or a fatal error
NoErrorYet == \A i \in 1..Len(out) : out[i].err \in {"nil", ErrEOF}

IsRecord(o) == o.err = "nil"

\* C1: on a well-formed log, in one or more segments, the i-th decode call
\* returns the i-th record written, and every call after the last record
\* returns io.EOF.
SequentialReplay ==
  WellFormed =>
    \A i \in 1..Len(out) :
      IF i <= Len(AllWritten)
      THEN IsRecord(out[i]) /\ out[i].rec = AllWritten[i]
      ELSE out[i].err = ErrEOF

SequentialReplayWitness ==
  /\ WellFormed
  /\ Len(written) = 2
  /\ Len(written[1]) >= 1
  /\ Len(written[2]) >= 1
  /\ Len(out) = Len(AllWritten) + 1
  /\ out[Len(out)].err = ErrEOF
  /\ \A i \in 1..Len(AllWritten) : out[i].rec = AllWritten[i]

\* the bytes taken by the records that decode returned from file f
RECURSIVE DecodedBytes(_, _)
DecodedBytes(f, n) ==
  IF n = 0 THEN 0
  ELSE DecodedBytes(f, n - 1) +
       (IF IsRecord(out[n]) /\ out[n].file = f
        THEN frameSizeBytes + out[n].recBytes + out[n].padBytes ELSE 0)

\* the segment being read, the last one once all are dropped
CurFile == IF Len(brs) > 0 THEN brs[1].file ELSE Len(files)

\* C2: between decode calls lastOffset() is the sum of 8 + recBytes + padBytes
\* over the records decoded from the segment being read (0 after crossing into
\* a new segment, never counting an earlier segment or a failed frame), and as
\* long as no call failed it is the position of the reader in that segment.
LastOffsetPerSegment ==
  mu = 0 =>
    /\ lastValidOff = DecodedBytes(CurFile, Len(out))
    /\ (NoErrorYet /\ Len(brs) > 0) => brs[1].pos = lastValidOff

LastOffsetPerSegmentWitness ==
  /\ mu = 0
  /\ Len(brs) = 1
  /\ brs[1].file = 2
  /\ DecodedBytes(1, Len(out)) > 0
  /\ DecodedBytes(2, Len(out)) > 0
  /\ lastValidOff = DecodedBytes(2, Len(out))
  /\ IsRecord(out[Len(out)])

\* C7: decodeFrameSize returns the low 56 bits as recBytes and a padBytes within
\* 0..7 that is 0 when the sign bit is clear, and it returns (recBytes, padBytes)
\* for the writer's length field of (recBytes, padBytes).
FrameSizeInvertible ==
  /\ fsOut.recBytes = SubSeq(fsIn.lenField, 1, 7)
  /\ fsOut.padBytes \in 0..7
  /\ fsIn.lenField[8] < 128 => fsOut.padBytes = 0
  /\ fsIn.enc # NoEnc => fsOut = fsIn.enc

FrameSizeInvertibleWitness ==
  /\ fsIn.enc # NoEnc
  /\ fsIn.enc.padBytes = 7
  /\ fsIn.enc.recBytes = <<255, 255, 255, 255, 255, 255, 255>>
  /\ fsOut = fsIn.enc

(***************************************************************************)
(* Checksum chain and control records.                                     *)
(***************************************************************************)
\* a returned control (checksum-type) record
IsControl(o) == IsRecord(o) /\ o.rec.type = crcType

\* the call unmarshalled a payload record and validated its checksum
Validated(o) == o.seen # NoRec /\ o.seen.type # crcType

RECURSIVE DataBetween(_, _)
\* the data of the payload records of calls i..j
DataBetween(i, j) == IF i > j THEN <<>> ELSE DataBetween(i, j - 1) \o out[j].seen.data

\* C3, as claimed: the payload records that follow a returned control record
\* are validated against a chain seeded with the control record's checksum
\* (stated for undamaged logs).
ChainSeededByControl ==
  \A i \in 1..Len(out) : \A j \in (i + 1)..Len(out) :
    ( /\ fault = NoFault
      /\ IsControl(out[i])
      /\ \A m \in (i + 1)..(j - 1) : IsRecord(out[m]) /\ ~IsControl(out[m])
      /\ Validated(out[j]) )
    => out[j].crcAfter = crcWrite(out[i].rec.crc, DataBetween(i + 1, j))

\* C3, amended: decode never reseeds the chain.  A control record is returned
\* unvalidated and leaves the chain as it stood; a payload record is validated
\* against the chain continued with its data; and the chain a call starts from
\* is the one the call before left, or the checksum of the control record
\* returned before when the caller passed it to updateCRC in between.
ChainSeededByCaller ==
  \A j \in 1..Len(out) :
    /\ IsControl(out[j]) => out[j].crcAfter = out[j].crcBefore
    /\ Validated(out[j]) =>
         /\ out[j].crcAfter = crcWrite(out[j].crcBefore, out[j].seen.data)
         /\ IsRecord(out[j]) <=> out[j].seen.crc = out[j].crcAfter
    /\ out[j].crcBefore =
         IF j = 1 THEN 0
         ELSE IF out[j].reseeded THEN out[j - 1].rec.crc ELSE out[j - 1].crcAfter

ChainSeededByCallerWitness ==
  /\ seed0 # 0
  /\ Len(out) >= 2
  /\ IsControl(out[1])
  /\ out[1].rec.crc = seed0
  /\ out[1].crcAfter = 0
  /\ out[2].reseeded
  /\ Validated(out[2])
  /\ IsRecord(out[2])
  /\ out[2].crcBefore = seed0

(***************************************************************************)
(* The damaged frame.                                                      *)
(***************************************************************************)
RECURSIVE RecsBefore(_)
RecsBefore(s) == IF s <= 1 THEN 0 ELSE RecsBefore(s - 1) + Len(written[s - 1])

\* the number of the damaged frame among the frames of the log
FaultIndex == RecsBefore(fault.seg) + fault.idx

RECURSIVE FramesLen(_, _)
FramesLen(recs, n) == IF n = 0 THEN 0 ELSE FramesLen(recs, n - 1) + Len(Frame(recs[n]))

\* the offset of the damaged frame in its file
FaultOff == FramesLen(written[fault.seg], fault.idx - 1)

FaultRec == written[fault.seg][fault.idx]

\* the calls before the j-th all returned records
AllRecordsBefore(j) == \A i \in 1..(j - 1) : IsRecord(out[i])

\* the decode call that met the damaged frame has returned
FaultMet == fault # NoFault /\ Len(out) >= FaultIndex /\ AllRecordsBefore(FaultIndex)

\* the call failed in unmarshalling or in checksum validation
FailedAtCheck(o) == o.stage = "check" /\ ~IsRecord(o)

\* some 512-byte sector of the file holds bytes of data, all of them zero, when
\* data starts at file offset off + 8
HasZeroSector(off, data) ==
  \E j0 \in 1..Len(data) :
    LET sect(j) == (off + frameSizeBytes + j - 1) \div minSectorSize
    IN \A j \in 1..Len(data) : sect(j) = sect(j0) => data[j] = 0

FinalRecordDamaged ==
  /\ Len(files) = 1
  /\ fault.seg = 1
  /\ fault.idx = Len(written[1])
  /\ fault.kind \in ZeroKinds \cup {"noise4"}

\* C4, as claimed: a failing final record of a single-segment log is classified
\* PossiblyTorn when its trailing bytes are zero and fatal when they are noise.
TornByTrailingZeros ==
  (FinalRecordDamaged /\ FaultMet /\ FailedAtCheck(out[FaultIndex])) =>
    /\ fault.kind \in ZeroKinds => out[FaultIndex].err = ErrUnexpectedEOF
    /\ fault.kind = "noise4" => out[FaultIndex].err \in Fatal

\* C4, amended: a failing final record of a single-segment log is classified
\* PossiblyTorn exactly when the bytes of its payload and padding that lie in
\* one 512-byte sector of the file are all zero, for some sector; otherwise the
\* unmarshalling or checksum error is returned.
TornByZeroSector ==
  (FinalRecordDamaged /\ FaultMet /\ FailedAtCheck(out[FaultIndex])) =>
    LET o == out[FaultIndex]
    IN /\ o.err = ErrUnexpectedEOF <=> HasZeroSector(o.off, o.data)
       /\ o.err # ErrUnexpectedEOF => o.err \in {ErrUnmarshal, ErrCRCMismatch}

TornByZeroSectorWitness ==
  /\ FinalRecordDamaged
  /\ FaultMet
  /\ fault.kind = "zero8"
  /\ FailedAtCheck(out[FaultIndex])
  /\ out[FaultIndex].err = ErrUnexpectedEOF
  /\ out[FaultIndex].off + frameSizeBytes < minSectorSize
  /\ out[FaultIndex].off + frameSizeBytes + Len(out[FaultIndex].data) > minSectorSize
  /\ \E j \in 1..Len(out[FaultIndex].data) : out[FaultIndex].data[j] # 0

\* C5, as claimed: a call that fails while two or more segments remain never
\* returns PossiblyTorn.
NoTornBeforeLastSegment ==
  \A j \in 1..Len(out) : out[j].segsLeft >= 2 => out[j].err # ErrUnexpectedEOF

\* C5, amended: while two or more segments remain, a call that fails in
\* unmarshalling or checksum validation returns that fatal error even when a
\* sector of the damaged bytes is all zero; PossiblyTorn is then returned only
\* for a short read of the length field or of the payload.
NoTornHeuristicBeforeLastSegment ==
  \A j \in 1..Len(out) :
    out[j].segsLeft >= 2 =>
      /\ FailedAtCheck(out[j]) => out[j].err \in {ErrUnmarshal, ErrCRCMismatch}
      /\ out[j].err = ErrUnexpectedEOF =>
           /\ out[j].stage \in {"header", "read"}
           /\ out[j].posEnd = Len(files[out[j].file])

NoTornHeuristicBeforeLastSegmentWitness ==
  /\ FaultMet
  /\ fault.kind = "zeroall"
  /\ out[FaultIndex].segsLeft = 2
  /\ FailedAtCheck(out[FaultIndex])
  /\ out[FaultIndex].err \in Fatal
  /\ HasZeroSector(out[FaultIndex].off, out[FaultIndex].data)

\* C6, as claimed: a length field declaring more bytes than remain unread in
\* the segment yields the size-limit error without a read.
SizeLimitByUnread ==
  \A j \in 1..Len(out) :
    (out[j].hdr /\ out[j].recBytes > out[j].unread) =>
      out[j].err = ErrSizeLimit /\ out[j].stage = "header"

\* C6, amended: a length field with recBytes greater than the size of the
\* segment less lastValidOff less padBytes, and only such a length field,
\* yields the size-limit error, returned before any payload byte is read and
\* with the checksum chain untouched.
SizeLimitByEntryLimit ==
  \A j \in 1..Len(out) :
    out[j].hdr =>
      LET limit == Len(files[out[j].file]) - out[j].off - out[j].padBytes
      IN /\ out[j].recBytes > limit <=> out[j].err = ErrSizeLimit
         /\ out[j].err = ErrSizeLimit =>
              /\ out[j].stage = "header"
              /\ out[j].posEnd = Len(files[out[j].file]) - out[j].unread
              /\ out[j].crcAfter = out[j].crcBefore

SizeLimitByEntryLimitWitness ==
  /\ FaultMet
  /\ fault.kind = "hdrbig"
  /\ out[FaultIndex].hdr
  /\ out[FaultIndex].err = ErrSizeLimit
  /\ out[FaultIndex].posEnd = out[FaultIndex].off + frameSizeBytes

(***************************************************************************)
(* Concurrent callers.                                                     *)
(***************************************************************************)
\* C8: at most one caller is inside the critical section, it is the holder of
\* the mutex, every returned record was read whole by its call (length field,
\* payload and padding consecutive in the file), and on a well-formed log the
\* results in the order of the calls are the records as written, then io.EOF.
OneDecodeAtATime ==
  /\ Cardinality(InFlight) <= 1
  /\ \A p \in Procs : p \in InFlight <=> mu = p
  /\ \A j \in 1..Len(out) :
       (IsRecord(out[j]) /\ AllRecordsBefore(j)) =>
         out[j].posEnd = out[j].off + frameSizeBytes + out[j].recBytes + out[j].padBytes
  /\ WellFormed =>
       \A i \in 1..Len(out) :
         /\ i <= Len(AllWritten) => IsRecord(out[i]) /\ out[i].rec = AllWritten[i]
         /\ i > Len(AllWritten) => out[i].err = ErrEOF

OneDecodeAtATimeWitness ==
  /\ WellFormed
  /\ Len(AllWritten) >= 3
  /\ Len(out) = 2
  /\ IsRecord(out[2])
  /\ mu = 1
  /\ pc[1] = "check"
  /\ \A p \in Procs \ {1} : pc[p] = "lock"

(***************************************************************************)
(* End of log.                                                             *)
(***************************************************************************)
\* no earlier call returned PossiblyTorn or a fatal error
NoErrorBefore(j) == \A i \in 1..(j - 1) : out[i].err \in {"nil", ErrEOF}

Damaging ==
  /\ fault # NoFault
  /\ LET f == Frame(FaultRec)
         d == Damage(f, fault.kind)
         n == frameSizeBytes + Len(Marshal(FaultRec))
     IN Len(d) < Len(f) \/ SubSeq(d, 1, n) # SubSeq(f, 1, n)
  /\ ~(fault.kind = "badcrc" /\ FaultRec.type = crcType)

\* C10: when the k-th frame of the log is bad, the calls before the k-th return
\* the records before it as written, and the k-th call returns PossiblyTorn or a
\* fatal error for the frame at that place.
BadFrameReported ==
  Damaging =>
    \A j \in 1..Len(out) :
      /\ j < FaultIndex => IsRecord(out[j]) /\ out[j].rec = AllWritten[j]
      /\ j = FaultIndex =>
           /\ out[j].err \in {ErrUnexpectedEOF} \cup Fatal
           /\ out[j].file = fault.seg
           /\ out[j].off = FaultOff

BadFrameReportedWitness ==
  /\ Damaging
  /\ fault.kind = "badcrc"
  /\ FaultIndex >= 2
  /\ FaultIndex < Len(AllWritten)
  /\ Len(out) = FaultIndex
  /\ out[FaultIndex].err = ErrCRCMismatch
  /\ out[FaultIndex - 1].rec = AllWritten[FaultIndex - 1]

(***************************************************************************)
(* The decoder after an error.                                             *)
(***************************************************************************)
\* C11: once a decode call has returned io.EOF, PossiblyTorn or a fatal error,
\* no later call returns a record, and after io.EOF every later call returns
\* io.EOF.
TerminalAfterError ==
  \A i \in 1..Len(out) : \A j \in (i + 1)..Len(out) :
    /\ ~IsRecord(out[i]) => ~IsRecord(out[j])
    /\ out[i].err = ErrEOF => out[j].err = ErrEOF

RECURSIVE ChainOf(_)
\* the checksum of the data of the payload records that the first n calls
\* returned, restarted from the control record's checksum where the caller
\* passed it to updateCRC
ChainOf(n) ==
  IF n = 0 THEN 0
  ELSE LET base == IF out[n].reseeded THEN out[n - 1].rec.crc ELSE ChainOf(n - 1)
       IN IF IsRecord(out[n]) /\ ~IsControl(out[n])
          THEN crcWrite(base, out[n].rec.data)
          ELSE base

\* C12: between decode calls, also after a call that returned PossiblyTorn or
\* a fatal error, lastCRC() is the checksum of the data of exactly the payload
\* records returned since the last updateCRC (or since the start).
ChecksumOfDecoded ==
  mu = 0 =>
    crc = IF reseeded THEN out[Len(out)].rec.crc ELSE ChainOf(Len(out))

(***************************************************************************)
(* The size check.                                                         *)
(***************************************************************************)
\* the limit of line 93 for a call that read the length field of a frame
EntryLimit(o) == Len(files[o.file]) - o.off - o.padBytes

\* C13: a call goes on to read the payload only with recBytes within the size
\* of the segment less lastValidOff less padBytes; with recBytes above it the
\* call returns the size-limit error from the header step, before the payload
\* is read, unmarshalled or tested for a torn write, never PossiblyTorn, and
\* with lastValidOff and the checksum as they were.
SizeCheckBeforeRead ==
  /\ \A p \in Procs :
       pc[p] \in {"read", "check"} => loc[p].recBytes <= EntryLimit(loc[p])
  /\ \A j \in 1..Len(out) :
       /\ out[j].stage \in {"read", "check"} => out[j].recBytes <= EntryLimit(out[j])
       /\ (out[j].hdr /\ out[j].recBytes > EntryLimit(out[j])) =>
            /\ out[j].err = ErrSizeLimit
            /\ out[j].stage = "header"
            /\ out[j].data = <<>>
            /\ out[j].seen = NoRec
            /\ out[j].offEnd = out[j].off
            /\ out[j].crcAfter = out[j].crcBefore

\* a length field whose recBytes is within the size of the file less lastValidOff
\* but above the limit once the padding is counted
SizeCheckBeforeReadWitness ==
  /\ FaultMet
  /\ fault.kind = "hdrpad"
  /\ LET o == out[FaultIndex]
     IN /\ o.hdr
        /\ o.err = ErrSizeLimit
        /\ o.recBytes <= Len(files[o.file]) - o.off
        /\ o.recBytes > EntryLimit(o)
        /\ o.padBytes > 0
        /\ o.segsLeft = 1

(***************************************************************************)
(* The torn-write detector.                                                *)
(***************************************************************************)
\* the places in data of the bytes that lie in sector k of the file, when data
\* starts at file offset off + 8
SectorBytes(off, data, k) ==
  {j \in 1..Len(data) : (off + frameSizeBytes + j - 1) \div minSectorSize = k}

\* the file offset of the first byte of the i-th chunk
RECURSIVE ChunkStart(_, _, _)
ChunkStart(off, chunks, i) ==
  IF i = 1 THEN off + frameSizeBytes
  ELSE ChunkStart(off, chunks, i - 1) + Len(chunks[i - 1])

\* C14: isTornEntry returns true exactly when one segment is left and the bytes
\* of the entry that lie in one 512-byte sector of the file are all zero, for
\* some sector; the chunks it tests are the entry's bytes in order, cut at the
\* file offsets that are multiples of 512, each non-empty and within one
\* sector, all but the first and the last 512 bytes long; an empty entry is not
\* torn.
TornIffZeroChunk ==
  LET off == tornIn.off
      data == tornIn.data
      chunks == tornOut.chunks
      first == (off + frameSizeBytes) \div minSectorSize
      last == (off + frameSizeBytes + Len(data)) \div minSectorSize
  IN /\ tornOut.torn <=>
          /\ tornIn.segs = 1
          /\ \E k \in first..last :
               /\ SectorBytes(off, data, k) # {}
               /\ \A j \in SectorBytes(off, data, k) : data[j] = 0
     /\ Concat(chunks) = data
     /\ \A i \in 1..Len(chunks) :
          LET from == ChunkStart(off, chunks, i)
              to == from + Len(chunks[i]) - 1
          IN /\ Len(chunks[i]) > 0
             /\ from \div minSectorSize = to \div minSectorSize
             /\ i > 1 => from % minSectorSize = 0
             /\ i < Len(chunks) => (to + 1) % minSectorSize = 0
             /\ (1 < i /\ i < Len(chunks)) => Len(chunks[i]) = minSectorSize
     /\ data = <<>> => (chunks = <<>> /\ ~tornOut.torn)

\* an entry of three chunks whose whole middle sector is zero
TornIffZeroChunkWitness ==
  /\ tornIn.segs = 1
  /\ tornIn.off = 0
  /\ Len(tornIn.data) = 1032
  /\ Len(tornOut.chunks) = 3
  /\ Len(tornOut.chunks[2]) = minSectorSize
  /\ IsZero(tornOut.chunks[2])
  /\ ~IsZero(tornOut.chunks[1])
  /\ ~IsZero(tornOut.chunks[3])
  /\ tornOut.torn

(***************************************************************************)
(* Short read of the payload.                                              *)
(***************************************************************************)
\* the segments from the one the call worked on to the last
SegsFrom(o) == Len(files) - o.file + 1

\* C15: when the length field passed the size check and the segment ends before
\* recBytes + padBytes bytes, the call returns io.ErrUnexpectedEOF from the
\* read, with no payload byte available as with a part of them, never io.EOF
\* or another error, and the segment stays at the front of the list, read to
\* its end.
ShortReadIsTorn ==
  \A j \in 1..Len(out) :
    LET o == out[j]
    IN /\ (o.hdr /\ o.recBytes <= EntryLimit(o) /\ o.recBytes + o.padBytes > o.unread) =>
            /\ o.stage = "read"
            /\ o.err = ErrUnexpectedEOF
       /\ (o.stage = "read") =>
            /\ o.err = ErrUnexpectedEOF
            /\ o.recBytes + o.padBytes > o.unread
            /\ o.segsLeft = SegsFrom(o)
            /\ o.posEnd = Len(files[o.file])
            /\ o.offEnd = o.off
            /\ o.crcAfter = o.crcBefore

\* the file ends right after the length field, another segment follows
ShortReadIsTornWitness ==
  /\ FaultMet
  /\ fault.kind = "cut8"
  /\ LET o == out[FaultIndex]
     IN /\ o.stage = "read"
        /\ o.unread = 0
        /\ o.recBytes > 0
        /\ o.err = ErrUnexpectedEOF
        /\ o.segsLeft = 2
        /\ Len(files[2]) > 0

(***************************************************************************)
(* Termination of decode.                                                  *)
(***************************************************************************)
\* a step of a call that stays at the reading of the length field: the call of
\* decodeRecord on the next segment
Advances(p) == DecodeHeader(p) /\ pc'[p] = "header"

\* every segment file is empty or begins with a zero length field
AllUnwritten ==
  \A i \in 1..Len(files) :
    Len(files[i]) = 0 \/
    (Len(files[i]) >= frameSizeBytes /\ SubSeq(files[i], 1, frameSizeBytes) = Zeros(frameSizeBytes))

\* C16: every decode call returns (a caller is inside a call exactly while it
\* holds the mutex, and the mutex is always released again); a step to the
\* next segment takes exactly one segment off the list, so a call passes no
\* more segments than the list held when it began; and on segments that are
\* all empty or zero-headed the call returns io.EOF.
DecodeTerminates ==
  /\ [](\A p \in Procs : pc[p] # "lock" <=> mu = p)
  /\ (mu # 0) ~> (mu = 0)
  /\ [][\A p \in Procs : Advances(p) => Len(brs') = Len(brs) - 1]_vars
  /\ [](\A j \in 1..Len(out) :
          /\ out[j].segsLeft <= out[j].segsBefore
          /\ out[j].segsBefore <= Len(files)
          /\ AllUnwritten => (out[j].err = ErrEOF /\ out[j].segsLeft = 0))

\* a call that went through two unwritten, preallocated segments to io.EOF
DecodeTerminatesWitness ==
  /\ AllUnwritten
  /\ Len(files) = 2
  /\ tail0 = PreallocLen
  /\ Len(out) >= 1
  /\ out[1].segsBefore = 2
  /\ out[1].segsLeft = 0
  /\ out[1].err = ErrEOF

(***************************************************************************)
(* Access to the decoder's fields outside decode.                          *)
(***************************************************************************)
\* C17: the segment list, lastValidOff and the checksum are read and written
\* only under the mutex, by decode as by lastOffset, lastCRC and updateCRC: none
\* of these runs while a decode call of another caller is in progress.
AccessUnderLock ==
  [][/\ UpdateCRC => mu = 0
     /\ (brs' # brs \/ lastValidOff' # lastValidOff \/ crc' # crc) =>
          (UpdateCRC \/ \E p \in Procs : mu = p /\ pc[p] # "lock")]_vars

\* a caller is inside disable
InDisable(c) == clients[c].pc \in {"dlock", "disable", "stop", "wait"}

\* every disable call returns (or the process has panicked meanwhile)
DisableReturns ==
  \A c \in Clients : InDisable(c) ~> (clients[c].pc = "idle" \/ hist.panicked)

\* C18 as stated: disable always terminates, and when the disable call that
\* took the keeper returns, the token-to-user table is empty and that keeper's
\* goroutine has exited.
DisableLeavesEmptyTable ==
  /\ DisableReturns
  /\ [][\A c \in Clients : StopWait(c) =>
            /\ keepers[clients[c].tk].pc = "done"
            /\ simpleTokens' = EmptyMap]_vars

\* C18 amended: disable always terminates; it empties the table and clears the
\* keeper in one critical section, and when the call that took keeper tk
\* returns, that keeper's goroutine has exited and the table holds only tokens
\* assigned under a keeper enabled after tk was taken.
DisableStopsKeeper ==
  /\ DisableReturns
  /\ [][\A c \in Clients :
          /\ DisableBody(c) => (simpleTokens' = EmptyMap /\ simpleTokenKeeper' = 0)
          /\ StopWait(c) =>
               /\ keepers[clients[c].tk].pc = "done"
               /\ \A t \in DOMAIN simpleTokens' :
                    t \in DOMAIN hist'.gen /\ hist'.gen[t] > clients[c].tk]_vars

\* a disable call has returned that took a keeper waiting for the mutex in the
\* middle of a tick; the keeper has exited, and the table holds a token again
DisableStopsKeeperWitness ==
  /\ hist.last.op = "disable"
  /\ hist.last.tk # 0
  /\ hist.last.waited
  /\ keepers[hist.last.tk].pc = "done"
  /\ simpleTokens # EmptyMap

\* the tokens a step removes from the token-to-user table
Removed == DOMAIN simpleTokens \ DOMAIN simpleTokens'

\* the expiry tick of keeper k as C19 describes it: made under the mutex; a
\* token is removed only if the time read at the tick is after its expiry,
\* and then from the token-to-user table and the TTL table of the provider's
\* keeper alike; no token is left whose expiry that time is after
ExpiryAtTick(k) ==
  /\ simpleTokensMu = KeeperHolds(k)
  /\ \A t \in Removed :
       /\ hist.exp[t] < keepers[k].nowtime
       /\ t \notin DOMAIN keepers'[simpleTokenKeeper].tokens
  /\ \A t \in DOMAIN keepers[k].tokens \ DOMAIN keepers'[k].tokens :
       t \notin DOMAIN simpleTokens'
  /\ k = simpleTokenKeeper =>
       \A t \in DOMAIN simpleTokens' : ~(hist.exp[t] < keepers[k].nowtime)

\* C19: while the provider is enabled, the keeper removes a token only at a
\* tick at which the time is after the token's expiry (the time of its
\* assignment or of its latest successful info lookup, plus the TTL), then
\* from both tables and under the mutex; a token whose expiry has not passed
\* is never removed by a keeper, and every expired token is removed at the
\* next tick.
TokenExpiry ==
  [][/\ \A k \in Keepers :
          (KeeperExpire(k) /\ simpleTokenKeeper # 0) => ExpiryAtTick(k)
     /\ (simpleTokenKeeper # 0 /\ simpleTokenKeeper' # 0 /\ Removed # {}) =>
          \/ \E k \in Keepers : KeeperExpire(k)
          \/ \E c \in Clients : InvalidateBody(c)]_vars

\* what C20 says of one assign call: without an index it returns an error and
\* stores nothing; an already-used token makes it panic and leaves the mapping;
\* a token returned with a nil error is stored for the user in the table and
\* in the keeper's TTL table, so that an info lookup made next finds the user
AssignSaves(c, username, ctx) ==
  LET token == FormatToken(ctx.prefix, ctx.index)
      ret == hist'.last
  IN /\ ~ctx.hasIndex =>
          /\ ret.err # "nil"
          /\ UNCHANGED <<simpleTokens, keepers>>
     /\ (ctx.hasIndex /\ token \in DOMAIN simpleTokens) =>
          /\ hist'.panicked
          /\ UNCHANGED simpleTokens
     /\ (ret.op = "assign" /\ ret.err = "nil") =>
          /\ ret.token = token
          /\ ret.token \in DOMAIN simpleTokens'
          /\ simpleTokenKeeper' # 0
          /\ ret.token \in DOMAIN keepers'[simpleTokenKeeper'].tokens
          /\ infoLookup(simpleTokens', ret.token, TRUE) = [user |-> username, ok |-> TRUE]

\* C20: assign generates the token, saves it, then returns it: a token
\* returned with a nil error is in the token table for that user and
\* registered with the TTL keeper, and an info issued next returns the user;
\* without an index assign returns an error and stores nothing; assigning an
\* already-used token panics and does not overwrite the mapping.
AssignSavesThenReturns ==
  [][\A c \in Clients, u \in Users, ctx \in Contexts :
        Assign(c, u, ctx) => AssignSaves(c, u, ctx)]_vars

\* the token-to-user table agrees with the provider's keeper: empty without a
\* keeper, else the tokens of the keeper's TTL table
TableMatchesKeeper ==
  IF simpleTokenKeeper = 0 THEN simpleTokens = EmptyMap
  ELSE DOMAIN simpleTokens = DOMAIN keepers[simpleTokenKeeper].tokens

\* C23: whenever the token mutex is not held, the token-to-user table is empty
\* if the provider is disabled and holds exactly the tokens of the current
\* keeper's TTL table if it is enabled; a keeper that disable has replaced
\* never removes a token from the table of a later enable.
TokenTableConsistent ==
  /\ [](MuFree => TableMatchesKeeper)
  /\ [][\A k \in Keepers :
          (KeeperExpire(k) /\ k # simpleTokenKeeper) => Removed = {}]_vars

\* the End of goroutine w's transaction has returned
EndDone(w) == tws[w].pc = "idle" /\ tws[w].trace # <<>>

\* the calls of a trace in their order
Ops(trace) == [i \in 1..Len(trace) |-> trace[i].op]

\* C21: End of a write transaction with changes calls notify(rev, events) with
\* rev = tw.Rev() + 1 exactly once and then the underlying TxnWrite.End()
\* exactly once, both while it holds the store's mutex, and releases the mutex
\* afterwards; End of a transaction without changes calls the underlying End()
\* exactly once, does not call notify and does not take the mutex.
NotifyThenEndUnderLock ==
  \A w \in Writers :
    LET t == tws[w]
    IN EndDone(w) =>
         /\ storeMu # w
         /\ IF Len(t.changes) = 0
            THEN Ops(t.trace) = <<"TxnWrite.End">>
            ELSE /\ Ops(t.trace) = <<"Lock", "notify", "TxnWrite.End", "Unlock">>
                 /\ t.trace[2].held
                 /\ t.trace[3].held
                 /\ t.trace[2].rev = t.beginRev + 1
                 /\ t.trace[2].evs = t.evs

\* one goroutine has ended a transaction with changes, another one a
\* transaction without
NotifyThenEndUnderLockWitness ==
  \E w1, w2 \in Writers :
    /\ EndDone(w1) /\ Len(tws[w1].changes) # 0 /\ Len(tws[w1].trace) = 4
    /\ EndDone(w2) /\ Len(tws[w2].changes) = 0 /\ Len(tws[w2].trace) = 1

\* C22: the events End makes correspond one to one, in order, to the
\* transaction's changes: a change with CreateRevision 0 gives a DELETE event
\* whose key-value is the change with ModRevision set to rev = tw.Rev() + 1,
\* every other change a PUT event whose key-value is the change as it is.
EventsMatchChanges ==
  evIn.called =>
    /\ evOut.rev = evIn.beginRev + 1
    /\ Len(evOut.evs) = Len(evIn.changes)
    /\ \A i \in 1..Len(evIn.changes) :
         LET c == evIn.changes[i]
             e == evOut.evs[i]
         IN IF c.CreateRevision = 0
            THEN e.Type = "DELETE" /\ e.Kv = [c EXCEPT !.ModRevision = evOut.rev]
            ELSE e.Type = "PUT" /\ e.Kv = c

\* events made of a deletion whose ModRevision was not rev, followed by a
\* change with a CreateRevision and ModRevision 0
EventsMatchChangesWitness ==
  /\ evIn.called
  /\ Len(evIn.changes) = 2
  /\ evIn.changes[1].CreateRevision = 0
  /\ evIn.changes[1].ModRevision # evOut.rev
  /\ evOut.evs[1].Type = "DELETE"
  /\ evIn.changes[2].CreateRevision # 0
  /\ evIn.changes[2].ModRevision = 0
  /\ evOut.evs[2].Type = "PUT"
====
